---- MODULE Spec2Model ----
(***************************************************************************)
(* Guesstures / charades game server: the game routes of the Express       *)
(* server, modelled for ONE game row of the `games` table together with    *)
(* its `game_players` and `game_words` rows.                               *)
(*                                                                         *)
(* The repository holds two generations of the server:                     *)
(*   "v2"  src/unnamed/part_002  (revokePoints, next-word, word_queue)     *)
(*   "v1"  src/api/index.ts      (correct draws the next word itself)      *)
(* The variable `impl` says which one is deployed; it never changes.       *)
(* The game page of the part_002 generation (src/unnamed/part_001, with    *)
(* the api client src/charades/src/api.ts) is modelled for one browser:    *)
(* its React state and its requests in flight.                             *)
(* Every request handler is one action: the handlers are synchronous       *)
(* (bun:sqlite, no await), so each runs to completion on the event loop.   *)
(***************************************************************************)
EXTENDS Integers, Sequences, FiniteSets, TLC

(* ------------------------------ bounds -------------------------------- *)
NumWords == 2        \* size of the `words` catalog (45 seeded in the code)
MaxIndex == 2        \* cap on each current_actor_index_t* counter
MaxRevoke == 2       \* largest revokePoints value a client sends
WinningScore == 2    \* games.winning_score (schema DEFAULT 30, scaled down)
TurnDuration == 2    \* games.turn_duration (schema DEFAULT 30, scaled down)

(* --------------------------- value encoding --------------------------- *)
Null == 0                    \* SQL NULL / JS null (words are 1..NumWords)
Now == 1                     \* datetime('now'), any non-NULL timestamp
Undefined == "undefined"     \* JS undefined (no req.user, array hole)
NaN == -1                    \* result of x % 0 in JS
GameId == "g"                \* id of the game row created in Init
NoGame == "nogame"           \* an id that matches no row of `games`

Users == {"u1", "u2"}
Creator == "u1"
Viewers == Users \cup {Undefined}   \* optionalAuth: req.user may be absent
Words == 1..NumWords
GameIds == {GameId, NoGame}
Teams == {1, 2}
RevokeValues == (-1)..MaxRevoke     \* body.revokePoints; 0 = absent/falsy
Impls == {"v1", "v2"}
\* ids of the word batches a game receives: the first start and one restart
Batches == {1, 2}

VARIABLES
    impl,             \* which server file is running
    status,           \* games.status
    team_score,       \* [1..2 -> Int]: games.team1_score, team2_score
    current_team,     \* games.current_team
    actor_index,      \* [1..2 -> Nat]: current_actor_index_t1 / _t2
    winning_score,    \* games.winning_score
    current_word,     \* games.current_word (Null or a word)
    turn_started_at,  \* games.turn_started_at (Null or Now)
    game_players,     \* sequence of rows [user_id, team, turn_order]
    game_words,       \* set of rows [word, batch, guessed, guessed_by_team]
    starts,           \* number of batches inserted into game_words
    turns_ended,      \* history: [1..2 -> Nat] end-turn calls per acting team
    \* ---- GamePage of user Me (src/unnamed/part_001) ----
    game,             \* useState<Game | null>: the last snapshot loaded
    isTurnActive,     \* useState(false)
    currentWord,      \* useState<string | null>(null): the word displayed
    turnScore,        \* useState(0)
    wordQueue,        \* useState<string[]>([])
    timeLeft,         \* useState(30)
    calls,            \* the page's api calls awaiting their response
    turn_base         \* history: score of the acting team when the page's
                      \* turn became active

gamevars == <<status, team_score, current_team, actor_index, winning_score,
              current_word, turn_started_at>>
dbvars == <<impl, status, team_score, current_team, actor_index,
            winning_score, current_word, turn_started_at, game_players,
            game_words, starts, turns_ended>>
pagevars == <<game, isTurnActive, currentWord, turnScore, wordQueue, timeLeft,
              calls, turn_base>>
vars == <<dbvars, pagevars>>

(* ------------------------------ helpers ------------------------------- *)
\* variant: the team is written back as it was
Other_Same(t) == t

\* newTeam: game.current_team === 1 ? 2 : 1
Other(t) == IF t = 1 THEN 2 ELSE 1

Max(a, b) == IF a >= b THEN a ELSE b

\* JS remainder for non-negative operands: x % 0 is NaN
JsMod(x, n) == IF n = 0 THEN NaN ELSE x % n

\* arr[i]?.user_id for a 0-based JS index: undefined when out of range or NaN
UserAt(arr, i) ==
    IF i >= 0 /\ i < Len(arr) THEN arr[i + 1].user_id ELSE Undefined

\* players.filter(p => p.team === t) on rows ORDER BY team, turn_order
ByTurnOrder(a, b) == a.turn_order < b.turn_order

TeamPlayers(t) ==
    SortSeq(SelectSeq(game_players, LAMBDA p : p.team = t), ByTurnOrder)

Unguessed == {r \in game_words : ~r.guessed}

\* variant: the query lacks AND word != ?
UnguessedExcept_Any(w) == Unguessed

\* skip: ... AND guessed = 0 AND word != ?
UnguessedExcept(w) == {r \in Unguessed : r.word # w}

\* UPDATE game_words SET guessed = 1, guessed_by_team = t
\*   WHERE word = w AND guessed = 0
MarkGuessed(w, t) ==
    {IF r.word = w /\ ~r.guessed
        THEN [r EXCEPT !.guessed = TRUE, !.guessed_by_team = t]
        ELSE r : r \in game_words}

\* SELECT word FROM words ORDER BY RANDOM() LIMIT 100, one new row per word:
\* the catalog holds fewer than 100 words, so every word is taken
NewBatch(b) ==
    {[word |-> w, batch |-> b, guessed |-> FALSE, guessed_by_team |-> 0] :
        w \in Words}

\* ORDER BY RANDOM() LIMIT k over a set of rows: every order of every choice
\* (LIMIT 5 of a pool of 100, scaled down with the pool)
QueueLimit == 1

RECURSIVE RandomOrders(_, _)
RandomOrders(S, k) ==
    IF k = 0 \/ S = {} THEN {<<>>}
    ELSE UNION {{<<r.word>> \o q : q \in RandomOrders(S \ {r}, k - 1)} :
                    r \in S}

(* -------------------------- actor rotation ---------------------------- *)
ActorIndexOf(t) == actor_index[t]

\* start-turn: team[index % team.length]?.user_id
StartTurnActorId ==
    UserAt(TeamPlayers(current_team),
           JsMod(ActorIndexOf(current_team), Len(TeamPlayers(current_team))))

\* variant: the counter indexes the team without the remainder
GetActorId_NoWrap ==
    UserAt(TeamPlayers(current_team), ActorIndexOf(current_team))

\* GET: team[index % Math.max(1, team.length)]?.user_id
GetActorId ==
    UserAt(TeamPlayers(current_team),
           JsMod(ActorIndexOf(current_team),
                 Max(1, Len(TeamPlayers(current_team)))))

\* variant: the actor check is missing
NotYourTurn_Skipped(u) == FALSE

\* start-turn guard: req.user.id !== currentActorId
NotYourTurn(u) == u # StartTurnActorId

\* GET: req.user?.id === currentActorId
IsCurrentActor(v) == v = GetActorId

(* ------------------------------ scoring ------------------------------- *)
\* variant: the score is written back without the increment
NewScore_Stale(s) == s

\* correct: (current_team === 1 ? team1_score : team2_score) + 1
NewScore(s) == s + 1

\* variant: the threshold has to be exceeded
GameOver_Strict(ns) == ns > winning_score

\* correct: newScore >= game.winning_score
GameOver(ns) == ns >= winning_score

\* variant: the guard on current_word is missing
NoActiveWord_Unchecked == FALSE

\* correct guard: !game.current_word
NoActiveWord == current_word = Null

\* variant: the body's revokePoints is never read
Revoking_Never(r) == FALSE

\* end-turn: revokePoints && revokePoints > 0
Revoking(r) == r # 0 /\ r > 0

\* variant: the subtraction is not floored
RevokedScore_NoFloor(s, r) == s - r

\* end-turn: Math.max(0, currentScore - revokePoints)
RevokedScore(s, r) == Max(0, s - r)

\* variant: the counter of the other team is written
ActorField_OtherTeam == Other(current_team)

\* end-turn: actorField of the team whose turn ends
ActorField == current_team

\* variant: the counter is written back without the increment
NewActorIndex_Stale == actor_index[current_team]

\* end-turn: newActorIndex = (counter of current_team) + 1
NewActorIndex == actor_index[current_team] + 1

(* ------------------------------- Init --------------------------------- *)
\* useState<Game | null>(null): no snapshot yet
NotLoaded ==
    [loaded |-> FALSE, status |-> "none", current_actor_id |-> Undefined,
     team1_players |-> 0, team2_players |-> 0]

\* GamePage as mounted: the useState initial values, nothing requested yet
PageInit ==
    /\ game = NotLoaded
    /\ isTurnActive = FALSE
    /\ currentWord = Null
    /\ turnScore = 0
    /\ wordQueue = <<>>
    /\ timeLeft = TurnDuration
    /\ calls = <<>>
    /\ turn_base = 0

\* State after POST /api/games by Creator: the game row with the schema
\* defaults and the creator's membership (team 1, turn_order 1).
Init ==
    /\ impl \in Impls
    /\ status = "waiting"
    /\ team_score = [t \in Teams |-> 0]
    /\ current_team = 1
    /\ actor_index = [t \in Teams |-> 0]
    /\ winning_score = WinningScore
    /\ current_word = Null
    /\ turn_started_at = Null
    /\ game_players = <<[user_id |-> Creator, team |-> 1, turn_order |-> 1]>>
    /\ game_words = {}
    /\ starts = 0
    /\ turns_ended = [t \in Teams |-> 0]
    /\ PageInit

\* the handler returned before any write
NoWrite == UNCHANGED dbvars

(* ------------------------- POST /games/:id/join ----------------------- *)
\* variant: the lookup of an existing membership is missing
JoinResult_NoLookup(u, gid, t) == IF gid # GameId THEN "NotFound" ELSE "ok"

JoinResult(u, gid, t) ==
    IF gid # GameId THEN "NotFound"
    ELSE IF \E i \in 1..Len(game_players) : game_players[i].user_id = u
    THEN "AlreadyJoined"
    ELSE "ok"

\* variant: the count is taken over both teams
NextTurnOrder_AllTeams(t) == Len(game_players) + 1

\* teamCount.count + 1
NextTurnOrder(t) == Len(SelectSeq(game_players, LAMBDA p : p.team = t)) + 1

JoinTeam(u, gid, t) ==
    IF JoinResult(u, gid, t) # "ok" THEN NoWrite
    ELSE /\ game_players' = Append(game_players,
                [user_id |-> u, team |-> t, turn_order |-> NextTurnOrder(t)])
         /\ UNCHANGED <<impl, gamevars, game_words, starts, turns_ended>>

(* ------------------------ POST /games/:id/start ----------------------- *)
\* variant: the comparison with created_by is missing
StartResult_AnyUser(u, gid) == IF gid # GameId THEN "NotFound" ELSE "ok"

StartResult(u, gid) ==
    IF gid # GameId THEN "NotFound"
    ELSE IF Creator # u THEN "NotCreator"
    ELSE "ok"

StartGame(u, gid) ==
    IF StartResult(u, gid) # "ok" THEN NoWrite
    ELSE /\ starts + 1 \in Batches
         /\ game_words' = game_words \cup NewBatch(starts + 1)
         /\ starts' = starts + 1
         /\ status' = "playing"
         /\ UNCHANGED <<impl, team_score, current_team, actor_index,
                        winning_score, current_word, turn_started_at,
                        game_players, turns_ended>>

(* --------------------- POST /games/:id/start-turn --------------------- *)
\* variant: the missing word row is not checked
StartTurnResult_NoRowCheck(u, gid) ==
    IF gid # GameId THEN "NotFound"
    ELSE IF NotYourTurn(u) THEN "NotYourTurn"
    ELSE "ok"

StartTurnResult(u, gid) ==
    IF gid # GameId THEN "NotFound"
    ELSE IF NotYourTurn(u) THEN "NotYourTurn"
    ELSE IF Unguessed = {} THEN "finished"
    ELSE "ok"

\* wordRow.word: the words the random SELECT of start-turn can return
StartTurnChoices == {r.word : r \in Unguessed}

StartTurn(u, gid) ==
    IF StartTurnResult(u, gid) # "ok" THEN NoWrite
    ELSE \E w \in StartTurnChoices :
         /\ current_word' = w
         /\ turn_started_at' = Now
         /\ UNCHANGED <<impl, status, team_score, current_team, actor_index,
                        winning_score, game_players, game_words, starts,
                        turns_ended>>

(* ----------------------- POST /games/:id/correct ---------------------- *)
\* unguessed rows left once the rows of current_word are marked guessed
Remaining == {r \in Unguessed : r.word # current_word}

CorrectResult(gid) ==
    IF gid # GameId \/ NoActiveWord THEN "NoActiveWord"
    ELSE IF GameOver(NewScore(team_score[current_team])) THEN "game_over"
    ELSE IF Remaining = {} THEN "no_more_words"
    ELSE "ok"

\* res.json({ game_over: true, winner: game.current_team })
CorrectWinner == current_team

\* part_002 always clears the word (the client asks for the next one);
\* api/index.ts clears it on game over or exhaustion and else draws the next
CorrectNextWords(res) ==
    IF impl = "v2" \/ res # "ok" THEN {Null}
    ELSE {r.word : r \in Remaining}

MarkCorrect(gid) ==
    LET res == CorrectResult(gid) IN
    IF res = "NoActiveWord" THEN NoWrite
    ELSE /\ game_words' = MarkGuessed(current_word, current_team)
         /\ team_score' = [team_score EXCEPT ![current_team] =
                              NewScore(team_score[current_team])]
         /\ current_word' \in CorrectNextWords(res)
         /\ status' = IF res = "game_over" THEN "finished" ELSE status
         /\ UNCHANGED <<impl, current_team, actor_index, winning_score,
                        turn_started_at, game_players, starts, turns_ended>>

(* ---------------------- POST /games/:id/next-word --------------------- *)
\* only part_002 has this route
NextWordResult(gid, w) ==
    IF gid # GameId THEN "NotFound"
    ELSE IF Unguessed = {} THEN "no_more_words"
    ELSE "ok"

\* variant: the requested word is taken without the availability query
NextWordChoices_Unverified(w) == {w}

\* the requested word if it is available, else a random unguessed one
NextWordChoices(w) ==
    IF \E r \in Unguessed : r.word = w THEN {w}
    ELSE {r.word : r \in Unguessed}

NextWord(gid, w) ==
    /\ impl = "v2"
    /\ IF NextWordResult(gid, w) # "ok" THEN NoWrite
       ELSE /\ current_word' \in NextWordChoices(w)
            /\ UNCHANGED <<impl, status, team_score, current_team,
                           actor_index, winning_score, turn_started_at,
                           game_players, game_words, starts, turns_ended>>

(* ------------------------ POST /games/:id/skip ------------------------ *)
\* game.current_word || '' : '' equals no catalog word
\* variant: the empty result of the query is not checked
SkipResult_Unchecked(gid) == IF gid # GameId THEN "NotFound" ELSE "ok"

SkipResult(gid) ==
    IF gid # GameId THEN "NotFound"
    ELSE IF UnguessedExcept(current_word) = {} THEN "no_other_words"
    ELSE "ok"

\* nextWord.word: the words the random SELECT can return
SkipChoices == {r.word : r \in UnguessedExcept(current_word)}

SkipWord(gid) ==
    IF SkipResult(gid) # "ok" THEN NoWrite
    ELSE \E w \in SkipChoices :
         /\ current_word' = w
         /\ UNCHANGED <<impl, status, team_score, current_team, actor_index,
                        winning_score, turn_started_at, game_players,
                        game_words, starts, turns_ended>>

(* ---------------------- POST /games/:id/end-turn ---------------------- *)
EndTurnResult(gid) == IF gid # GameId THEN "NotFound" ELSE "ok"

\* api/index.ts does not read revokePoints at all
EndTurnScore(rv) ==
    IF impl = "v2" /\ Revoking(rv)
    THEN [team_score EXCEPT ![current_team] =
             RevokedScore(team_score[current_team], rv)]
    ELSE team_score

EndTurn(gid, rv) ==
    IF EndTurnResult(gid) # "ok" THEN NoWrite
    ELSE /\ actor_index[current_team] < MaxIndex
         /\ team_score' = EndTurnScore(rv)
         /\ current_team' = Other(current_team)
         /\ actor_index' = [actor_index EXCEPT ![ActorField] = NewActorIndex]
         /\ current_word' = Null
         /\ turn_started_at' = Null
         /\ turns_ended' = [turns_ended EXCEPT ![current_team] = @ + 1]
         /\ UNCHANGED <<impl, status, winning_score, game_players,
                        game_words, starts>>

(* ------------------------ POST /games/:id/end ------------------------- *)
\* no lookup and no creator check: the UPDATE matches the row or nothing
\* req.user is not read either: every authenticated requester is served
EndResult(u, gid) == "ok"

EndGame(u, gid) ==
    IF gid # GameId THEN NoWrite
    ELSE /\ status' = "finished"
         /\ current_word' = Null
         /\ UNCHANGED <<impl, team_score, current_team, actor_index,
                        winning_score, turn_started_at, game_players,
                        game_words, starts, turns_ended>>

(* ------------------------ GET /games/:idOrCode ------------------------ *)
\* wordToShow: (status === 'playing' && isCurrentActor) ? current_word : null
WordToShow(v) ==
    IF status = "playing" /\ IsCurrentActor(v) THEN current_word ELSE Null

\* word_queue: QueueLimit random unguessed words for the current actor
\* (part_002)
WordQueues(v) ==
    IF impl = "v2" /\ IsCurrentActor(v) /\ status = "playing"
    THEN RandomOrders(Unguessed, QueueLimit)
    ELSE {<<>>}

\* the responses the handler can send to viewer v
GetGameResponses(v) ==
    {[current_word |-> WordToShow(v), word_queue |-> q,
      current_actor_id |-> GetActorId, status |-> status,
      team_score |-> team_score, current_team |-> current_team] :
        q \in WordQueues(v)}

GetGame(v, gid) == NoWrite

(* ------------------------------- Next --------------------------------- *)
\* join, start, start-turn and GET read req.user; the other handlers only
\* require some authenticated session (authMiddleware) and never look at it.
\* A request for an id that matches no row comes from one user.
Requests == (Users \X {GameId}) \cup ({Creator} \X {NoGame})

ViewRequests == (Viewers \X {GameId}) \cup ({Creator} \X {NoGame})

\* requests sent to the server directly, by any client: the page of Me is
\* not involved
Next ==
    \/ \E rq \in Requests, t \in Teams :
          JoinTeam(rq[1], rq[2], t) /\ UNCHANGED pagevars
    \/ \E rq \in Requests : StartGame(rq[1], rq[2]) /\ UNCHANGED pagevars
    \/ \E rq \in Requests : StartTurn(rq[1], rq[2]) /\ UNCHANGED pagevars
    \/ \E gid \in GameIds : MarkCorrect(gid) /\ UNCHANGED pagevars
    \/ \E gid \in GameIds, w \in Words :
          NextWord(gid, w) /\ UNCHANGED pagevars
    \/ \E gid \in GameIds : SkipWord(gid) /\ UNCHANGED pagevars
    \/ \E gid \in GameIds, rv \in RevokeValues :
          EndTurn(gid, rv) /\ UNCHANGED pagevars
    \/ \E rq \in Requests : EndGame(rq[1], rq[2]) /\ UNCHANGED pagevars
    \/ \E rq \in ViewRequests : GetGame(rq[1], rq[2]) /\ UNCHANGED pagevars

Spec == Init /\ [][Next]_vars

\* the deployment of src/unnamed/part_002 alone: the server whose end-turn
\* reads revokePoints (the client of api/index.ts never sends the field)
InitV2 == Init /\ impl = "v2"

SpecV2 == InitV2 /\ [][Next]_vars

(***************************************************************************)
(*        GamePage of one player (src/unnamed/part_001, part_002 era)      *)
(***************************************************************************)
\* The page is the browser tab of Me, the creator. An api call is an entry
\* of `calls`: sent by a handler, served by the server at any later moment
\* and in any order (one fetch per call), then received by the handler's
\* continuation after its await.
Me == Creator

\* calls in flight beyond which no click or poll sends another; the timer
\* is not held back by a call in flight
MaxCalls == 1

Pending == "pending"

\* a non-2xx response, on which the api client throws
Thrown(res) == res \in {"NotFound", "NotYourTurn", "NoActiveWord", "NotCreator"}

\* by: the handler awaiting the call; active: isTurnActive in its closure
Call(api, by, arg, active) ==
    [api |-> api, by |-> by, arg |-> arg, active |-> active,
     served |-> FALSE, res |-> Pending]

Drop(i) == SubSeq(calls, 1, i - 1) \o SubSeq(calls, i + 1, Len(calls))

\* the fields of the loaded Game the page reads
Snapshot(resp) ==
    [loaded |-> TRUE, status |-> resp.status, current_actor_id |-> resp.current_actor_id,
     team1_players |-> Len(TeamPlayers(1)),
     team2_players |-> Len(TeamPlayers(2))]

\* render: isCurrentActor, canStartTurn and the play-area branches
Loaded == game.loaded
PageIsCurrentActor == Loaded /\ game.current_actor_id = Me
CanStartGame ==
    /\ Loaded
    /\ game.status = "waiting"
    /\ game.team1_players > 0
    /\ game.team2_players > 0
CanStartTurn ==
    /\ Loaded
    /\ game.status = "playing"
    /\ PageIsCurrentActor
    /\ ~isTurnActive
    /\ currentWord = Null
ActingView ==
    Loaded /\ game.status = "playing" /\ isTurnActive /\ PageIsCurrentActor

(* ------------------------------ loadGame ------------------------------ *)
\* mount and the 2 s interval; the closure keeps isTurnActive of its render.
LoadGame ==
    /\ Len(calls) < MaxCalls
    /\ calls' = Append(calls, Call("getGame", "loadGame", Null, isTurnActive))
    /\ UNCHANGED <<dbvars, game, isTurnActive, currentWord, turnScore,
                   wordQueue, timeLeft, turn_base>>

\* setGame; setWordQueue when the queue is non-empty; setCurrentWord when
\* the closure's turn was not active and the server shows a word
LoadGameDone(i) ==
    LET c == calls[i] IN
    /\ game' = c.res.snapshot
    /\ wordQueue' = IF Len(c.res.word_queue) > 0 THEN c.res.word_queue
                    ELSE wordQueue
    /\ currentWord' = IF ~c.active /\ c.res.current_word # Null
                      THEN c.res.current_word ELSE currentWord
    /\ calls' = Drop(i)
    /\ UNCHANGED <<dbvars, isTurnActive, turnScore, timeLeft, turn_base>>

(* --------------------------- handleStartGame -------------------------- *)
HandleStartGame ==
    /\ CanStartGame
    /\ Len(calls) < MaxCalls
    /\ calls' = Append(calls, Call("startGame", "handleStartGame", Null,
                                   isTurnActive))
    /\ UNCHANGED <<dbvars, game, isTurnActive, currentWord, turnScore,
                   wordQueue, timeLeft, turn_base>>

\* await api.startGame(game.id); loadGame()  (an error only sets `error`)
HandleStartGameDone(i) ==
    LET c == calls[i] IN
    /\ calls' = IF Thrown(c.res) THEN Drop(i)
                ELSE [calls EXCEPT ![i] =
                         Call("getGame", "loadGame", Null, c.active)]
    /\ UNCHANGED <<dbvars, game, isTurnActive, currentWord, turnScore,
                   wordQueue, timeLeft, turn_base>>

(* --------------------------- handleStartTurn -------------------------- *)
\* the Start Turn button: a queued word is shown at once and announced with
\* next-word; with an empty queue the word comes from start-turn
HandleStartTurn ==
    /\ CanStartTurn
    /\ Len(calls) < MaxCalls
    /\ IF Len(wordQueue) > 0
       THEN /\ wordQueue' = Tail(wordQueue)
            /\ currentWord' = Head(wordQueue)
            /\ calls' = Append(calls, Call("setNextWord", "handleStartTurn",
                                           Head(wordQueue), isTurnActive))
       ELSE /\ calls' = Append(calls, Call("startTurn", "handleStartTurn",
                                           Null, isTurnActive))
            /\ UNCHANGED <<wordQueue, currentWord>>
    /\ UNCHANGED <<dbvars, game, isTurnActive, turnScore, timeLeft, turn_base>>

\* after the await: setTimeLeft(turn_duration), setTurnScore(0),
\* setIsTurnActive(true); a finished start-turn only reloads the game
HandleStartTurnDone(i) ==
    LET c == calls[i] IN
    IF Thrown(c.res.result)
    THEN /\ calls' = Drop(i)
         /\ UNCHANGED <<dbvars, game, isTurnActive, currentWord, turnScore,
                        wordQueue, timeLeft, turn_base>>
    ELSE IF c.api = "startTurn" /\ c.res.result = "finished"
    THEN /\ calls' = [calls EXCEPT ![i] =
                         Call("getGame", "loadGame", Null, c.active)]
         /\ UNCHANGED <<dbvars, game, isTurnActive, currentWord, turnScore,
                        wordQueue, timeLeft, turn_base>>
    ELSE /\ currentWord' = IF c.api = "startTurn" THEN c.res.word
                           ELSE currentWord
         /\ timeLeft' = TurnDuration
         /\ turnScore' = 0
         /\ isTurnActive' = TRUE
         /\ turn_base' = team_score[current_team]
         /\ calls' = Drop(i)
         /\ UNCHANGED <<dbvars, game, wordQueue>>

(* ---------------------------- handleEndTurn --------------------------- *)
\* the state updates of handleEndTurn(timedOutWhileActing) and its end-turn
\* call, appended to the calls `rest`; score is turnScore in its closure
HandleEndTurn(timedOutWhileActing, score, rest) ==
    /\ isTurnActive' = FALSE
    /\ currentWord' = Null
    /\ wordQueue' = <<>>
    /\ turnScore' = 0
    /\ calls' = Append(rest,
          Call("endTurn", "handleEndTurn",
               [revokePoints |-> IF timedOutWhileActing THEN score ELSE 0,
                timedOutWhileActing |-> timedOutWhileActing], TRUE))

\* await api.endTurn(...); loadGame()
HandleEndTurnDone(i) ==
    LET c == calls[i] IN
    /\ calls' = IF Thrown(c.res) THEN Drop(i)
                ELSE [calls EXCEPT ![i] =
                         Call("getGame", "loadGame", Null, c.active)]
    /\ UNCHANGED <<dbvars, game, isTurnActive, currentWord, turnScore,
                   wordQueue, timeLeft, turn_base>>

(* ---------------------------- handleCorrect --------------------------- *)
HandleCorrect ==
    /\ ActingView
    /\ currentWord # Null
    /\ Len(calls) < MaxCalls
    /\ calls' = Append(calls, Call("markCorrect", "handleCorrect", Null,
                                   isTurnActive))
    /\ UNCHANGED <<dbvars, game, isTurnActive, currentWord, turnScore,
                   wordQueue, timeLeft, turn_base>>

\* after the await: setTurnScore(prev + 1), then by the answer
HandleCorrectDone(i) ==
    LET c == calls[i] IN
    IF Thrown(c.res)
    THEN /\ calls' = Drop(i)
         /\ UNCHANGED <<dbvars, game, isTurnActive, currentWord, turnScore,
                        wordQueue, timeLeft, turn_base>>
    ELSE IF c.res = "game_over"
    THEN /\ turnScore' = turnScore + 1
         /\ isTurnActive' = FALSE
         /\ currentWord' = Null
         /\ calls' = [calls EXCEPT ![i] =
                         Call("getGame", "loadGame", Null, c.active)]
         /\ UNCHANGED <<dbvars, game, wordQueue, timeLeft, turn_base>>
    ELSE IF c.res = "no_more_words"
    THEN /\ HandleEndTurn(FALSE, 0, Drop(i))
         /\ UNCHANGED <<dbvars, game, timeLeft, turn_base>>
    ELSE /\ turnScore' = turnScore + 1
         /\ currentWord' = Null
         /\ calls' = Drop(i)
         /\ UNCHANGED <<dbvars, game, isTurnActive, wordQueue, timeLeft,
                        turn_base>>

(* ---------------------------- handleNextWord -------------------------- *)
\* the Next Word button; with a queued word the next-word call is not
\* awaited (by = "nobody")
HandleNextWord ==
    /\ ActingView
    /\ currentWord = Null
    /\ Len(calls) < MaxCalls
    /\ IF Len(wordQueue) > 0
       THEN /\ wordQueue' = Tail(wordQueue)
            /\ currentWord' = Head(wordQueue)
            /\ calls' = Append(calls, Call("setNextWord", "nobody",
                                           Head(wordQueue), isTurnActive))
       ELSE /\ calls' = Append(calls, Call("startTurn", "handleNextWord",
                                           Null, isTurnActive))
            /\ UNCHANGED <<wordQueue, currentWord>>
    /\ UNCHANGED <<dbvars, game, isTurnActive, turnScore, timeLeft, turn_base>>

HandleNextWordDone(i) ==
    LET c == calls[i] IN
    IF Thrown(c.res.result)
    THEN /\ calls' = Drop(i)
         /\ UNCHANGED <<dbvars, game, isTurnActive, currentWord, turnScore,
                        wordQueue, timeLeft, turn_base>>
    ELSE IF c.res.result = "finished"
    THEN /\ HandleEndTurn(FALSE, 0, Drop(i))
         /\ UNCHANGED <<dbvars, game, timeLeft, turn_base>>
    ELSE /\ currentWord' = c.res.word
         /\ calls' = Drop(i)
         /\ UNCHANGED <<dbvars, game, isTurnActive, turnScore, wordQueue,
                        timeLeft, turn_base>>

\* the response of a call nobody awaits is dropped
Unawaited(i) ==
    /\ calls' = Drop(i)
    /\ UNCHANGED <<dbvars, game, isTurnActive, currentWord, turnScore,
                   wordQueue, timeLeft, turn_base>>

(* ----------------------------- timer effect --------------------------- *)
\* setTimeout(() => setTimeLeft(t => t - 1), 1000) while isTurnActive
Tick ==
    /\ isTurnActive
    /\ timeLeft > 0
    /\ timeLeft' = timeLeft - 1
    /\ UNCHANGED <<dbvars, game, isTurnActive, currentWord, turnScore,
                   wordQueue, calls, turn_base>>

\* isTurnActive && timeLeft === 0: handleEndTurn(currentWord !== null)
Expire ==
    /\ isTurnActive
    /\ timeLeft = 0
    /\ HandleEndTurn(currentWord # Null, turnScore, calls)
    /\ UNCHANGED <<dbvars, game, timeLeft, turn_base>>

(* ------------------- the server answering the page -------------------- *)
Answer(i, res) ==
    calls' = [calls EXCEPT ![i].served = TRUE, ![i].res = res]

PageKept == UNCHANGED <<game, isTurnActive, currentWord, turnScore,
                        wordQueue, timeLeft, turn_base>>

ServeGetGame(i) ==
    /\ calls[i].api = "getGame"
    /\ GetGame(Me, GameId)
    /\ \E resp \in GetGameResponses(Me) :
          Answer(i, [snapshot |-> Snapshot(resp),
                     current_word |-> resp.current_word,
                     word_queue |-> resp.word_queue])
    /\ PageKept

ServeStartGame(i) ==
    /\ calls[i].api = "startGame"
    /\ StartGame(Me, GameId)
    /\ Answer(i, StartResult(Me, GameId))
    /\ PageKept

ServeStartTurn(i) ==
    /\ calls[i].api = "startTurn"
    /\ StartTurn(Me, GameId)
    /\ Answer(i, [result |-> StartTurnResult(Me, GameId),
                  word |-> current_word'])
    /\ PageKept

ServeCorrect(i) ==
    /\ calls[i].api = "markCorrect"
    /\ MarkCorrect(GameId)
    /\ Answer(i, CorrectResult(GameId))
    /\ PageKept

ServeNextWord(i) ==
    /\ calls[i].api = "setNextWord"
    /\ NextWord(GameId, calls[i].arg)
    /\ Answer(i, [result |-> NextWordResult(GameId, calls[i].arg),
                  word |-> current_word'])
    /\ PageKept

ServeEndTurn(i) ==
    /\ calls[i].api = "endTurn"
    /\ EndTurn(GameId, calls[i].arg.revokePoints)
    /\ Answer(i, EndTurnResult(GameId))
    /\ PageKept

Unserved == {i \in 1..Len(calls) : ~calls[i].served}
Served(by) == {i \in 1..Len(calls) : calls[i].served /\ calls[i].by = by}

\* the other player joins a team
OtherJoins == \E t \in Teams : JoinTeam("u2", GameId, t) /\ UNCHANGED pagevars

PageNext ==
    \/ LoadGame
    \/ HandleStartGame
    \/ HandleStartTurn
    \/ HandleCorrect
    \/ HandleNextWord
    \/ Tick
    \/ Expire
    \/ \E i \in Unserved : ServeGetGame(i)
    \/ \E i \in Unserved : ServeStartGame(i)
    \/ \E i \in Unserved : ServeStartTurn(i)
    \/ \E i \in Unserved : ServeCorrect(i)
    \/ \E i \in Unserved : ServeNextWord(i)
    \/ \E i \in Unserved : ServeEndTurn(i)
    \/ \E i \in Served("loadGame") : LoadGameDone(i)
    \/ \E i \in Served("handleStartGame") : HandleStartGameDone(i)
    \/ \E i \in Served("handleStartTurn") : HandleStartTurnDone(i)
    \/ \E i \in Served("handleCorrect") : HandleCorrectDone(i)
    \/ \E i \in Served("handleNextWord") : HandleNextWordDone(i)
    \/ \E i \in Served("handleEndTurn") : HandleEndTurnDone(i)
    \/ \E i \in Served("nobody") : Unawaited(i)
    \/ OtherJoins

\* the part_002 server with the page of part_001
PageSpec == InitV2 /\ [][PageNext]_vars

(***************************************************************************)
(*                              Properties                                 *)
(***************************************************************************)

\* The actor of section 4.1: players of current_team ordered by turn_order,
\* indexed by that team's counter mod team size; none for an empty team.
NoActor == "none"

CurrentActor ==
    LET P == TeamPlayers(current_team) IN
    IF Len(P) = 0 THEN NoActor
    ELSE P[(actor_index[current_team] % Len(P)) + 1].user_id

GuessedBy(t) == {r \in game_words : r.guessed /\ r.guessed_by_team = t}

\* C1: in every reachable state both team scores are >= 0, whatever
\* revokePoints values end-turn received (also amounts above the score).
C1_ScoresNonNegative == \A t \in Teams : team_score[t] >= 0

\* a point was scored by team 1 and then revoked down to zero by end-turn
C1_Witness ==
    /\ impl = "v2"
    /\ team_score[1] = 0
    /\ GuessedBy(1) # {}
    /\ turns_ended[1] > 0

\* C2: status never moves from playing back to waiting, and never leaves
\* finished.
C2_StatusNeverGoesBack ==
    [][/\ status = "playing" => status' # "waiting"
       /\ status = "finished" => status' = "finished"]_vars

\* C3: once a mark_correct has reached winning_score and the game is
\* finished, every start_turn and mark_correct is refused and leaves the
\* scores, current_word and status as they are.
C3_FinishedRefusesTurns ==
    [][(status = "finished" /\ \E t \in Teams : team_score[t] >= winning_score)
        => /\ CorrectResult(GameId) = "NoActiveWord"
           /\ \A u \in Users :
                 StartTurnResult(u, GameId) # "ok"
           /\ (MarkCorrect(GameId) \/ \E u \in Users : StartTurn(u, GameId))
                 => UNCHANGED <<team_score, current_word, status>>]_vars

\* C4: each team's counter equals the number of that team's ended turns, so
\* the user who passes the start-turn actor check on the team's k-th turn
\* is player (k mod n) of the team in turn_order, whatever the other team did.
C4_RoundRobin ==
    \A t \in Teams :
        /\ actor_index[t] = turns_ended[t]
        /\ (t = current_team /\ Len(TeamPlayers(t)) > 0) =>
              \A u \in Users :
                  (StartTurnResult(u, GameId) # "NotYourTurn") <=>
                  (u = TeamPlayers(t)[(turns_ended[t] % Len(TeamPlayers(t)))
                                        + 1].user_id)

\* team 1 has two players and is on its third turn (k = 2, back to the first
\* player) after team 2 has had turns in between
C4_Witness ==
    /\ Len(TeamPlayers(1)) = 2
    /\ current_team = 1
    /\ turns_ended[1] = 2
    /\ turns_ended[2] >= 1
    /\ StartTurnActorId = TeamPlayers(1)[1].user_id

\* C5: a viewer who is not the current actor (an unauthenticated viewer
\* included) is shown current_word = null and an empty word_queue.
C5_WordHiddenFromNonActors ==
    \A v \in Viewers :
        v # CurrentActor =>
            \A resp \in GetGameResponses(v) :
                resp.current_word = Null /\ resp.word_queue = <<>>

\* C6: start_turn gets past the actor check only for the current actor; any
\* other requester gets NotYourTurn and the game row is left unchanged (a
\* start_turn step that changes it is the current actor's).
C6_StartTurnOnlyForActor ==
    /\ [](\A u \in Users :
            u # CurrentActor => StartTurnResult(u, GameId) = "NotYourTurn")
    /\ [][~UNCHANGED <<current_word, turn_started_at, team_score,
                       current_team, actor_index>> =>
             \A u \in Users : StartTurn(u, GameId) => u = CurrentActor]_vars

\* a turn was started on a team of two, whose other player is not the actor
C6_Witness ==
    /\ status = "playing"
    /\ current_word # Null
    /\ turn_started_at = Now
    /\ Len(TeamPlayers(current_team)) = 2
    /\ \E u \in Users : u # CurrentActor /\ Unguessed # {}

\* C7: current_word is non-null only while status = playing.
C7_WordOnlyWhilePlaying == current_word # Null => status = "playing"

\* C8: mark_correct with current_word = null is refused with NoActiveWord and
\* changes neither score, no guessed flag, nor status, nor current_team.
C8_NoActiveWordRejected ==
    [][current_word = Null =>
         /\ CorrectResult(GameId) = "NoActiveWord"
         /\ MarkCorrect(GameId) =>
               UNCHANGED <<team_score, game_words, status, current_team>>]_vars

\* after a scored point the turn was ended: a late mark_correct meets no word
C8_Witness ==
    /\ status = "playing"
    /\ current_word = Null
    /\ turns_ended[1] > 0
    /\ team_score[1] > 0
    /\ Unguessed # {}

\* C9: a successful mark_correct adds exactly 1 to the score of current_team,
\* keeps the other score, marks the rows of the word that was current_word
\* guessed by current_team, and keeps current_team and both counters.
C9_CorrectFrame ==
    [][(current_word # Null /\ MarkCorrect(GameId)) =>
         /\ team_score'[current_team] = team_score[current_team] + 1
         /\ team_score'[Other(current_team)] = team_score[Other(current_team)]
         /\ \E r \in game_words : r.word = current_word /\ ~r.guessed
         /\ \A r \in game_words :
               (r.word = current_word /\ ~r.guessed) =>
                   [r EXCEPT !.guessed = TRUE,
                             !.guessed_by_team = current_team] \in game_words'
         /\ \A r \in game_words' : r.word = current_word => r.guessed
         /\ current_team' = current_team
         /\ actor_index' = actor_index]_vars

\* team 2 has scored its first point on a word now marked as guessed by it
C9_Witness ==
    /\ team_score[2] = 1
    /\ team_score[1] = 0
    /\ current_team = 2
    /\ Cardinality({r.word : r \in GuessedBy(2)}) = 1
    /\ GuessedBy(1) = {}

\* C10: a mark_correct whose new score is >= winning_score sets status to
\* finished, clears current_word and answers game_over with the team that
\* was current_team as winner.
C10_WinFinishesGame ==
    [][(/\ current_word # Null
        /\ team_score'[current_team] >= winning_score
        /\ MarkCorrect(GameId)) =>
         /\ status' = "finished"
         /\ current_word' = Null
         /\ CorrectResult(GameId) = "game_over"
         /\ CorrectWinner = current_team
         /\ current_team' = current_team]_vars

\* team 2 has just won: finished, word cleared, team 2 still the current team
C10_Witness ==
    /\ status = "finished"
    /\ current_team = 2
    /\ team_score[2] = winning_score
    /\ team_score[1] < winning_score
    /\ current_word = Null
    /\ Cardinality(GuessedBy(2)) >= winning_score

\* the state of the scenario of C11 between its mark_correct calls: one
\* player per team, started once, team 1's first turn running with a word
\* assigned, no turn ended, only team 1 has scored, enough words to win
C11_InScenario ==
    /\ Len(TeamPlayers(1)) = 1
    /\ Len(TeamPlayers(2)) = 1
    /\ NumWords >= winning_score
    /\ status = "playing"
    /\ starts = 1
    /\ current_team = 1
    /\ turns_ended = [t \in Teams |-> 0]
    /\ turn_started_at = Now
    /\ current_word # Null
    /\ team_score[2] = 0
    /\ team_score[1] < winning_score
    /\ Cardinality(GuessedBy(1)) = team_score[1]

\* C11: one player per team, start_game, start_turn by team 1's player, then
\* winning_score consecutive mark_correct calls with nothing in between: each
\* one succeeds (the next mark_correct again meets an active word) and the
\* last one leaves team1_score = winning_score, status finished, winner 1.
C11_ConsecutiveCorrectsWin ==
    [][(C11_InScenario /\ MarkCorrect(GameId)) =>
         IF team_score'[1] >= winning_score
         THEN /\ team_score'[1] = winning_score
              /\ status' = "finished"
              /\ CorrectWinner = 1
         ELSE (CorrectResult(GameId) # "NoActiveWord")']_vars

\* C12: every end_turn, from any turn state, hands current_team to the other
\* team (so it stays 1 or 2) and clears current_word and turn_started_at; an
\* end_turn without revoke_points leaves both scores as they were, hence so
\* do two of them in a row.
C12_EndTurnFlipsAndClears ==
    [][\A rv \in RevokeValues :
          EndTurn(GameId, rv) =>
             /\ current_team' \in Teams
             /\ current_team' # current_team
             /\ current_word' = Null
             /\ turn_started_at' = Null
             /\ (rv = 0 => team_score' = team_score)]_vars

\* both teams have scored and each has ended a turn: team 1 is current again,
\* no word is assigned and the points are still there
C12_Witness ==
    /\ turns_ended[1] >= 1
    /\ turns_ended[2] >= 1
    /\ current_team = 1
    /\ current_word = Null
    /\ turn_started_at = Null
    /\ team_score[1] > 0
    /\ team_score[2] > 0

\* C13: an end_turn adds exactly 1 to the counter of the team whose turn is
\* ending and keeps the other counter; every other operation keeps both, so
\* neither counter ever decreases.
C13_CountersOnlyByEndTurn ==
    [][/\ \A t \in Teams : actor_index'[t] >= actor_index[t]
       /\ IF \E rv \in RevokeValues : EndTurn(GameId, rv)
          THEN /\ actor_index'[current_team] = actor_index[current_team] + 1
               /\ actor_index'[Other(current_team)] =
                     actor_index[Other(current_team)]
          ELSE actor_index' = actor_index]_vars

\* team 1 has ended two turns and team 2 one, with joins, a start, started
\* turns and a scored point around them
C13_Witness ==
    /\ actor_index = <<2, 1>>
    /\ status = "playing"
    /\ Len(game_players) = 2
    /\ team_score[1] > 0
    /\ current_word # Null

\* C14: end_turn with revoke_points = r > 0 sets the score of the team whose
\* turn is ending to max(0, score - r), keeps the other team's score and
\* hands current_team over (score 2, r = 2 gives score 0).
C14_RevokeFloorsAtZero ==
    [][\A rv \in 1..MaxRevoke :
          EndTurn(GameId, rv) =>
             /\ team_score'[current_team] =
                   (IF team_score[current_team] > rv
                       THEN team_score[current_team] - rv ELSE 0)
             /\ team_score'[Other(current_team)] =
                   team_score[Other(current_team)]
             /\ current_team' # current_team
             /\ current_team' \in Teams]_vars

\* team 1 guessed two words in its first turn (score 2) and the end_turn of
\* that turn revoked them: score 0, team 2 is current
C14_Witness ==
    /\ starts = 1
    /\ Cardinality({r.word : r \in GuessedBy(1)}) = 2
    /\ turns_ended = <<1, 0>>
    /\ team_score[1] = 0
    /\ current_team = 2

\* the case of C15: a word is assigned and every unguessed row left in the
\* game carries that word
C15_OnlyCurrentWordLeft ==
    /\ current_word # Null
    /\ {r.word : r \in Unguessed} = {current_word}

\* C15: skip_word when the only unguessed word left equals current_word
\* answers NoAlternative (no_other_words) and changes nothing of the game.
C15_SkipWithoutAlternative ==
    /\ [](C15_OnlyCurrentWordLeft => SkipResult(GameId) = "no_other_words")
    /\ [][(C15_OnlyCurrentWordLeft /\ SkipWord(GameId)) =>
             UNCHANGED <<gamevars, game_players, game_words>>]_vars

\* the actor is on the last unguessed word of the game, the other word of
\* the batch being guessed already
C15_Witness ==
    /\ C15_OnlyCurrentWordLeft
    /\ status = "playing"
    /\ turn_started_at = Now
    /\ starts = 1
    /\ Cardinality({r.word : r \in GuessedBy(current_team)}) = NumWords - 1

\* C16: a successful skip_word replaces current_word by an unguessed word of
\* the game other than the previous current_word and changes nothing else:
\* scores, current_team, counters, status and every guessed flag stay.
C16_SkipFrame ==
    /\ [](SkipResult(GameId) = "ok" =>
            /\ SkipChoices # {}
            /\ \A w \in SkipChoices :
                  /\ w # current_word
                  /\ \E r \in game_words : r.word = w /\ ~r.guessed)
    /\ [][(SkipResult(GameId) = "ok" /\ SkipWord(GameId)) =>
             /\ current_word' \in SkipChoices
             /\ current_word' # current_word
             /\ UNCHANGED <<team_score, current_team, actor_index, status,
                            turn_started_at, game_words, game_players>>]_vars

\* a word was swapped during a running turn of team 2 with both words of the
\* batch still unguessed and team 1's point in place
C16_Witness ==
    /\ status = "playing"
    /\ current_team = 2
    /\ turn_started_at = Now
    /\ current_word # Null
    /\ team_score = <<1, 0>>
    /\ SkipResult(GameId) = "ok"
    /\ \E r \in Unguessed : r.word = current_word

\* C17: start_game by a user who is not the creator is refused with
\* NotCreator and leaves status and the word pool as they are; for an id
\* that matches no game it is refused with NotFound.
C17_StartOnlyByCreator ==
    /\ [](/\ \A u \in Users \ {Creator} :
               StartResult(u, GameId) = "NotCreator"
          /\ \A u \in Users : StartResult(u, NoGame) = "NotFound")
    /\ [][((\E u \in Users \ {Creator} : StartGame(u, GameId))
            \/ (\E u \in Users : StartGame(u, NoGame))) =>
             UNCHANGED <<status, game_words>>]_vars

\* a second user has joined the waiting game, which has no words yet: that
\* user's start request is the refused one
C17_Witness ==
    /\ status = "waiting"
    /\ game_words = {}
    /\ \E i \in 1..Len(game_players) : game_players[i].user_id # Creator
    /\ \E u \in Users \ {Creator} : StartResult(u, GameId) = "NotCreator"

\* C18: end_game succeeds only for the creator: from any other user it
\* answers NotCreator and leaves status and current_word unchanged.
C18_EndOnlyByCreator ==
    [][\A u \in Users \ {Creator} :
          EndGame(u, GameId) =>
             /\ EndResult(u, GameId) = "NotCreator"
             /\ UNCHANGED <<status, current_word>>]_vars

\* C19: in every reachable state with status = playing both teams have at
\* least one player.
C19_PlayingNeedsBothTeams ==
    status = "playing" =>
        Len(TeamPlayers(1)) > 0 /\ Len(TeamPlayers(2)) > 0

\* C20: right after a successful start_game of a waiting game, status is
\* playing, current_team is 1 and both rotation counters are 0, whatever
\* was requested while the game was waiting.
C20_StartBeginsAtTeamOne ==
    [][(/\ status = "waiting"
        /\ StartResult(Creator, GameId) = "ok"
        /\ StartGame(Creator, GameId)) =>
          /\ status' = "playing"
          /\ current_team' = 1
          /\ actor_index' = [t \in Teams |-> 0]]_vars

\* C21: the word pool is materialized once, at the waiting -> playing
\* transition, with no word twice in it, and no entry is added afterwards.
C21_PoolMaterializedOnce ==
    /\ [](\A r1, r2 \in game_words : r1.word = r2.word => r1 = r2)
    /\ [][status # "waiting" =>
             {<<r.word, r.batch>> : r \in game_words'} =
             {<<r.word, r.batch>> : r \in game_words}]_vars

\* C22: draws are without replacement: no draw (start_turn, or the
\* automatic draw after mark_correct) returns a word that an earlier draw of
\* the game returned. So once a started turn has a word assigned, that word
\* is not among the words a start_turn can return, and the automatic draw of
\* a mark_correct returns another word than the one in current_word.
C22_DrawWithoutReplacement ==
    /\ []((turn_started_at = Now /\ current_word # Null) =>
             current_word \notin StartTurnChoices)
    /\ [][(CorrectResult(GameId) = "ok" /\ MarkCorrect(GameId)
              /\ current_word' # Null) =>
             current_word' # current_word]_vars

\* C23: join_team by a user who already has a membership answers
\* AlreadyJoined and adds nothing, so every user has at most one membership
\* (hence one team), the creator's being on team 1.
C23_OneMembershipPerUser ==
    /\ [](/\ \A i, j \in 1..Len(game_players) :
                game_players[i].user_id = game_players[j].user_id => i = j
          /\ game_players[1] =
                [user_id |-> Creator, team |-> 1, turn_order |-> 1]
          /\ \A i \in 1..Len(game_players), t \in Teams :
                JoinResult(game_players[i].user_id, GameId, t)
                   = "AlreadyJoined")
    /\ [][\A u \in Users, t \in Teams :
            ((\E i \in 1..Len(game_players) : game_players[i].user_id = u)
               /\ JoinTeam(u, GameId, t)) =>
                 game_players' = game_players]_vars

\* both users are members, on different teams, and the game goes on
C23_Witness ==
    /\ Len(game_players) = 2
    /\ game_players[2].team = 2
    /\ status = "playing"
    /\ \A u \in Users, t \in Teams :
          JoinResult(u, GameId, t) = "AlreadyJoined"

\* C24: the turn_order values of a team with n players are 1..n in join
\* order, and a membership's team and turn_order never change.
C24_TurnOrderIsJoinPosition ==
    /\ [](\A t \in Teams :
            LET J == SelectSeq(game_players, LAMBDA p : p.team = t) IN
            \A k \in 1..Len(J) : J[k].turn_order = k)
    /\ [][/\ Len(game_players') >= Len(game_players)
          /\ \A i \in 1..Len(game_players) :
                game_players'[i] = game_players[i]]_vars

\* a second player joined the creator's team after a first turn was played
C24_Witness ==
    /\ Len(game_players) = 2
    /\ game_players[2] = [user_id |-> "u2", team |-> 1, turn_order |-> 2]
    /\ turns_ended[1] > 0

\* C26: start_turn by the current actor when no unguessed word is left
\* answers the finished signal and assigns nothing: current_word and
\* turn_started_at stay as they are.
C26_StartTurnOnExhaustedPool ==
    /\ [](\A u \in Users :
            (u = CurrentActor /\ Unguessed = {}) =>
                StartTurnResult(u, GameId) = "finished")
    /\ [][(Unguessed = {} /\ \E u \in Users : StartTurn(u, GameId)) =>
             UNCHANGED <<current_word, turn_started_at>>]_vars

\* every word of the started game is guessed, the game is still playing and
\* the current team has an actor to ask for a turn
C26_Witness ==
    /\ status = "playing"
    /\ game_words # {}
    /\ Unguessed = {}
    /\ CurrentActor \in Users
    /\ StartTurnResult(CurrentActor, GameId) = "finished"

\* C27: when the current team has no player, start_turn fails with
\* NoPlayersOnTeam for every requester and changes nothing.
C27_NoPlayersOnTeam ==
    /\ [](Len(TeamPlayers(current_team)) = 0 =>
            \A u \in Users : StartTurnResult(u, GameId) = "NoPlayersOnTeam")
    /\ [][(Len(TeamPlayers(current_team)) = 0
              /\ \E u \in Users : StartTurn(u, GameId)) =>
             UNCHANGED <<gamevars, game_words, game_players>>]_vars

\* C28: after a successful mark_correct below winning_score: if an unguessed
\* word remains, the server has drawn it: current_word is an unguessed word
\* other than the one just guessed; if none remains, current_word is null
\* and the answer is no_more_words.
C28_CorrectDrawsNextWord ==
    [][(/\ current_word # Null
        /\ MarkCorrect(GameId)
        /\ CorrectResult(GameId) # "game_over") =>
          IF Remaining # {}
          THEN /\ current_word' # Null
               /\ current_word' # current_word
               /\ \E r \in game_words' : r.word = current_word' /\ ~r.guessed
          ELSE /\ current_word' = Null
               /\ CorrectResult(GameId) = "no_more_words"]_vars

\* C29: in a playing game whose words are all guessed, the start_turn of the
\* current actor (answered with the finished signal) is a step that makes
\* words available again or sets status to finished: the game does not stay
\* playing with an exhausted pool.
C29_ExhaustionEndsGame ==
    (status = "playing" /\ game_words # {} /\ Unguessed = {}
        /\ CurrentActor \in Users) =>
       /\ StartTurnResult(CurrentActor, GameId) = "finished"
       /\ ENABLED (/\ StartTurn(CurrentActor, GameId)
                   /\ (status' = "finished" \/ Unguessed' # {}))

\* C30: when the countdown reaches 0 with a word displayed, the page ends the
\* turn revoking the points scored since the turn started: once that
\* end_turn is served the acting team's score is its score at turn start,
\* whatever mark_correct was in flight at the expiry; at 0 with no word
\* displayed the end_turn revokes nothing.
C30_ExpiryRevokesTurnPoints ==
    [][/\ \A i \in Unserved :
            (/\ calls[i].api = "endTurn"
             /\ calls[i].arg.timedOutWhileActing
             /\ ServeEndTurn(i)) =>
               team_score'[current_team] = turn_base
       /\ (Expire /\ currentWord = Null) =>
             calls'[Len(calls')].arg.revokePoints = 0]_vars

\* the end_turn requests of the page that await their response
EndTurnsInFlight ==
    Cardinality({i \in 1..Len(calls) : calls[i].api = "endTurn"})

\* C31: while a turn is active on the page, timeLeft starts at
\* turn_duration, goes down by 1 per tick and never below 0; an end_turn
\* request is issued only by a turn that is active, which it makes inactive,
\* so a turn whose countdown reached 0 issues exactly one end_turn.
C31_TimerEndsTurnOnce ==
    /\ [](isTurnActive => timeLeft \in 0..TurnDuration)
    /\ [][(~isTurnActive /\ isTurnActive') => timeLeft' = TurnDuration]_vars
    /\ [][(isTurnActive /\ isTurnActive' /\ timeLeft' # timeLeft) =>
             timeLeft' = timeLeft - 1]_vars
    /\ [][Expire => (EndTurnsInFlight' = EndTurnsInFlight + 1
                     /\ ~isTurnActive')]_vars
    /\ [][EndTurnsInFlight' > EndTurnsInFlight =>
             (isTurnActive /\ ~isTurnActive')]_vars

\* C32: next-word sets current_word to the requested word when that word
\* has an unguessed row in the game's pool; otherwise to some unguessed
\* word of the pool; with no unguessed word it answers no_more_words and
\* keeps current_word. It changes no score, team, counter, status or row.
C32_NextWordAsRequested ==
    [][\A w \in Words :
          NextWord(GameId, w) =>
             /\ UNCHANGED <<team_score, current_team, actor_index, status,
                            game_words, turn_started_at>>
             /\ IF \E r \in game_words : r.word = w /\ ~r.guessed
                THEN current_word' = w
                ELSE IF \E r \in game_words : ~r.guessed
                THEN \E r \in game_words :
                        ~r.guessed /\ r.word = current_word'
                ELSE /\ NextWordResult(GameId, w) = "no_more_words"
                     /\ current_word' = current_word]_vars

\* a word is set outside a started turn while another word is guessed: the
\* request for the guessed word is answered with a substitute
C32_Witness ==
    /\ impl = "v2"
    /\ status = "playing"
    /\ turn_started_at = Null
    /\ current_word # Null
    /\ \E r \in game_words : r.guessed
    /\ \E r \in game_words : ~r.guessed /\ r.word = current_word

\* C33: a non-null current_word is a word of the pool with an unguessed row;
\* a row marked guessed stays marked, and a word that has been marked
\* guessed never becomes current_word again.
C33_GuessedWordsStayOut ==
    /\ [](current_word # Null =>
             \E r \in game_words : r.word = current_word /\ ~r.guessed)
    /\ [][\A r \in game_words :
             r.guessed => (r \in game_words' /\ r.word # current_word')]_vars

\* the ledger agrees with the scores
LedgerMatches == \A t \in Teams : team_score[t] = Cardinality(GuessedBy(t))

\* C34: each team's score is at most the number of the game's word rows
\* guessed by that team, and a step that lowers no score (no revocation)
\* keeps the two equal; so the scores never add up to more than the guessed
\* rows.
C34_ScoreMatchesLedger ==
    /\ [](\A t \in Teams : team_score[t] <= Cardinality(GuessedBy(t)))
    /\ [](team_score[1] + team_score[2] <=
             Cardinality({r \in game_words : r.guessed}))
    /\ [][(LedgerMatches /\ \A t \in Teams : team_score'[t] >= team_score[t])
             => LedgerMatches']_vars

\* C35: while the game is playing both scores are below winning_score, and
\* in every state at most one team has reached winning_score.
C35_OneWinnerAtMost ==
    /\ status = "playing" => \A t \in Teams : team_score[t] < winning_score
    /\ ~(\A t \in Teams : team_score[t] >= winning_score)

\* C36: a finished game is frozen: a step taken from status = finished
\* changes no score, not current_team and no rotation counter.
C36_FinishedIsFrozen ==
    [][status = "finished" =>
          UNCHANGED <<team_score, current_team, actor_index>>]_vars

\* C37: the current_actor_id that GET reports, to any viewer, is exactly the
\* user whose start-turn passes the actor check; with nobody on the current
\* team GET reports no actor and start-turn passes the check for no user.
C37_ActorComputationsAgree ==
    \A v \in Viewers : \A resp \in GetGameResponses(v) :
        /\ \A u \in Users :
              (resp.current_actor_id = u) <=>
                 (StartTurnResult(u, GameId) # "NotYourTurn")
        /\ TeamPlayers(current_team) = <<>> =>
              /\ resp.current_actor_id = Undefined
              /\ \A u \in Users : StartTurnResult(u, GameId) = "NotYourTurn"

\* the turn has passed to a team nobody joined
C37_Witness ==
    /\ status = "playing"
    /\ TeamPlayers(current_team) = <<>>
    /\ turns_ended[Other(current_team)] > 0

\* C38: while the game is playing and a user is the current actor, a step
\* that is not an end-turn (join, start-turn, correct, skip, next-word)
\* leaves the same user the current actor.
C38_ActorChangesOnlyByEndTurn ==
    [][(status = "playing" /\ GetActorId \in Users
           /\ turns_ended' = turns_ended)
          => GetActorId' = GetActorId]_vars

\* correct, skip, next-word and end-turn never read req.user: the step a
\* request takes is the same whoever sent it
TurnRequest ==
    \/ MarkCorrect(GameId)
    \/ SkipWord(GameId)
    \/ \E w \in Words : NextWord(GameId, w)
    \/ \E rv \in RevokeValues : EndTurn(GameId, rv)

\* C39: in a playing game, a correct, skip, next-word or end-turn request
\* sent by a user who is not the current actor changes no score, not
\* current_word, not current_team and no rotation counter.
C39_OnlyActorChangesTurn ==
    [][\A u \in Users :
          (status = "playing" /\ u # GetActorId /\ TurnRequest) =>
             UNCHANGED <<team_score, current_word, current_team,
                         actor_index>>]_vars

\* C40: when the page of the current actor shows a word during its active
\* turn and none of its requests is in flight, the word shown is the
\* server's current_word.
C40_ShownWordIsServerWord ==
    (/\ status = "playing"
     /\ GetActorId = Me
     /\ isTurnActive
     /\ currentWord # Null
     /\ calls = <<>>) => currentWord = current_word

====
